---- MODULE Spec2Model ----
(***************************************************************************)
(* f1-telemetry-tui: the packet pipeline of src/main.rs (receive loop, one *)
(* forwarding task per packet, unbounded channel) and the consumer task of *)
(* src/app.rs (App::start), which applies one packet at a time to AppData  *)
(* behind a mutex and redraws the dashboard before taking the next packet. *)
(*                                                                         *)
(* Option<T> is modelled as a sequence of length 0 (None) or 1 (Some).     *)
(* Rust indexes car slots from 0, TLA+ sequences from 1: car slot i is     *)
(* element i + 1 of a payload (see Get).                                   *)
(***************************************************************************)
EXTENDS Integers, Sequences, FiniteSets, Bags, TLC

VARIABLES
    data,      \* AppData, the value behind App.inner (app.rs 65-75)
    lock,      \* the async mutex around AppData: "free" or "consumer"
    tasks,     \* bag of packets held by spawned forwarding tasks (main.rs 26)
    queue,     \* the unbounded crossbeam channel (main.rs 16), FIFO
    msg,       \* Option: the packet of the consumer's current loop iteration
    pc,        \* the consumer task: "recv", "apply", "render", or after a
               \* panic "panicked" (the task is gone) or "aborted" (the
               \* process is gone)
    target,    \* history: AppData as the complete application of msg leaves it
    pending,   \* history: packets applied and not yet drawn
    arrival,   \* history: the packets main received and the consumer has not
               \* finished with, in the order client.next() returned them
    errs       \* history: the receive failures main has logged

vars == <<data, lock, tasks, queue, msg, pc, target, pending, arrival, errs>>

(***************************************************************************)
(* Bounds of the model.                                                    *)
(***************************************************************************)
\* Longest per-car payload array (the game sends 22 car slots).
MaxCars == 2
\* Most packets between the receive loop and the consumer in the pipeline
\* specification (the channel itself is unbounded).
MaxInFlight == 3
\* Longest lap time of the formatting specification, in whole hours.
MaxLapHours == 1
\* Greatest tyre wear value of the colour specification (the field is a u8;
\* the game sends 0..100).
MaxWear == 120
\* Most receive failures in the liveness specification.
MaxErrs == 2
\* Most packets in the pipeline in the liveness specification.
MaxLive == 2

\* AppData.player_index as App::new sets it, and the header value of a
\* packet that names no player car.
UnknownPlayer == 255

None == <<>>
Some(x) == <<x>>

\* Vec::get(i) with a 0-based index: Some(&v[i]) or None.
Get(v, i) == IF i + 1 \in DOMAIN v THEN Some(v[i + 1]) ELSE None

(***************************************************************************)
(* Conversions of the f1_telemetry_client values to display strings.       *)
(***************************************************************************)
\* Driver::name(). A display name is kept as the sequence of its tokens, the
\* words between single spaces, which is what split(" ") returns.
DriverName(driver) ==
    CASE driver = "LewisHamilton" -> <<"Lewis", "Hamilton">>
      [] driver = "MaxVerstappen" -> <<"Max", "Verstappen">>
      [] OTHER -> <<"Unknown">>

\* Team::name()
TeamName(team) ==
    CASE team = "Mercedes" -> "Mercedes AMG"
      [] team = "RedBull" -> "Red Bull Racing"
      [] OTHER -> "Unknown"

\* VisualTyreCompound::to_string()
CompoundLabel(compound) ==
    CASE compound = "VisualSoft" -> "Soft"
      [] compound = "VisualMedium" -> "Medium"
      [] OTHER -> "Invalid"

Pad3(n) ==
    IF n < 10 THEN "00" \o ToString(n)
    ELSE IF n < 100 THEN "0" \o ToString(n) ELSE ToString(n)

\* a / b rounded to the nearest integer, a tie to the value that makes
\* base + a / b even: IEEE 754 round-to-nearest-even on an exact quotient.
RoundHalfEven(a, b, base) ==
    LET q == a \div b
        r == a % b
    IN  IF 2 * r > b \/ (2 * r = b /\ (base + q) % 2 = 1) THEN q + 1 ELSE q

\* The least k >= from with x * 2^k >= bound.
RECURSIVE ShiftUp(_, _, _)
ShiftUp(x, bound, from) ==
    IF x * 2^from >= bound THEN from ELSE ShiftUp(x, bound, from + 1)

\* floor(log2(x)) of an integer x >= 1.
RECURSIVE Log2(_)
Log2(x) == IF x < 2 THEN 0 ELSE 1 + Log2(x \div 2)

\* Duration::as_secs_f32 of a Duration of ms whole milliseconds (fewer than
\* 2^21 seconds): (secs as f32) + (nanos as f32) / 1e9, each operation rounded
\* to the 24-bit significand of an f32. The f32 is n / 2^g.
as_secs_f32(ms) ==
    LET secs == ms \div 1000
        sub == ms % 1000
        \* nanos / 1e9 = sub / 1000 lies in [2^-k, 2^-(k-1)) and is nf / 2^gf
        k == IF sub = 0 THEN 1 ELSE ShiftUp(sub, 1000, 1)
        gf == 23 + k
        nf == RoundHalfEven(sub * 2^(gf - 3), 125, 0)
        \* secs lies in [2^e, 2^(e+1)); the sum is rounded to a multiple of 2^-g
        g == 23 - Log2(secs)
        d == gf - g
        base == secs * 2^g
    IN  IF secs = 0 THEN [n |-> nf, g |-> gf]
        ELSE [n |-> base + (IF d > 25 THEN 0 ELSE RoundHalfEven(nf, 2^d, base)),
              g |-> g]

\* Mutant of to_lap_time: the minutes are not wrapped modulo 60.
to_lap_time_mut(ms) ==
    LET x == as_secs_f32(ms)
        whole == IF x.g > 24 THEN 0 ELSE x.n \div (2^(x.g))
        frac == IF x.g > 24 THEN x.n ELSE x.n % (2^(x.g))
        thousandths == RoundHalfEven(frac * 125, 2^(x.g - 3), 0)
        carry == thousandths \div 1000
    IN  ToString((ms \div 1000) \div 60) \o ":" \o ToString((whole % 60) + carry)
            \o "." \o Pad3(thousandths % 1000)

\* to_lap_time of a Duration of ms whole milliseconds: the minutes from
\* as_secs(), the seconds as_secs_f32() % 60.0 printed by {:.3}, which rounds
\* the f32's exact value to 3 decimals.
to_lap_time(ms) ==
    LET mins == ((ms \div 1000) \div 60) % 60
        x == as_secs_f32(ms)
        whole == IF x.g > 24 THEN 0 ELSE x.n \div (2^(x.g))
        frac == IF x.g > 24 THEN x.n ELSE x.n % (2^(x.g))
        thousandths == RoundHalfEven(frac * 125, 2^(x.g - 3), 0)
        carry == thousandths \div 1000
    IN  ToString(mins) \o ":" \o ToString((whole % 60) + carry)
            \o "." \o Pad3(thousandths % 1000)

\* Mutant of wear_color_percentage: 50 falls in the warning bucket.
wear_color_percentage_mut(value) ==
    IF value \in 0..49 THEN "Green"
    ELSE IF value \in 50..70 THEN "Yellow"
    ELSE "Red"

\* wear_color_percentage: `0..=50 => Green, 51..=70 => Yellow, _ => Red`
wear_color_percentage(value) ==
    IF value \in 0..50 THEN "Green"
    ELSE IF value \in 51..70 THEN "Yellow"
    ELSE "Red"

(***************************************************************************)
(* The aggregator: one operator per arm of `match msg` in App::start.      *)
(***************************************************************************)
\* DriverDetails built from one ParticipantData of the payload.
DetailsOf(p) ==
    [driver |-> DriverName(p.driver),
     team |-> TeamName(p.team),
     race_number |-> p.race_number,
     nationality |-> p.nationality,
     name |-> p.name]

\* CarStatus (the roster summary) built from one CarStatusData.
SummaryOf(c) ==
    [tyre |-> CompoundLabel(c.visual_tyre_compound),
     rear_left_tyre |-> c.tyres_wear.rear_left,
     rear_right_tyre |-> c.tyres_wear.rear_left,
     front_left_tyre |-> c.tyres_wear.rear_left,
     front_right_tyre |-> c.tyres_wear.rear_left]

\* Mutant of TelemetryOf: the suggested gear is taken from the car's gear.
TelemetryOfMut(t, suggested_gear) ==
    [speed |-> t.speed,
     throttle |-> t.throttle,
     brake |-> t.brake,
     gear |-> t.gear,
     suggested_gear |-> t.gear,
     engine_rpm |-> t.engine_rpm,
     drs |-> t.drs,
     rev_lights_percent |-> t.rev_lights_percent]

\* PlayerTelemetry built from the player's CarTelemetryData and the packet.
TelemetryOf(t, suggested_gear) ==
    [speed |-> t.speed,
     throttle |-> t.throttle,
     brake |-> t.brake,
     gear |-> t.gear,
     suggested_gear |-> suggested_gear,
     engine_rpm |-> t.engine_rpm,
     drs |-> t.drs,
     rev_lights_percent |-> t.rev_lights_percent]

\* Packet2020::CarStatus
CarStatusArm(d, p) ==
    LET player == Get(p.car_status_data, p.player_car_index)
        d1 == IF player # None THEN [d EXCEPT !.player_car_status = player] ELSE d
    IN  [d1 EXCEPT !.car_status =
                      [k \in DOMAIN p.car_status_data |-> SummaryOf(p.car_status_data[k])]]

\* Packet2020::CarTelemetry
CarTelemetryArm(d, p) ==
    LET player == Get(p.car_telemetry_data, p.player_car_index)
    IN  IF player # None
        THEN [d EXCEPT !.player_telemetry =
                          Some(TelemetryOf(player[1], p.suggested_gear))]
        ELSE d

\* Mutant of RosterEmpty: the roster is rebuilt by every Participants packet.
RosterEmptyMut(d) == TRUE

\* `data.participants.is_empty()`
RosterEmpty(d) == d.participants = <<>>

\* Mutant of KeepParticipant: race number 0 passes the filter.
KeepParticipantMut(f) == f.race_number >= 0

\* `.filter(|(_, f)| f.race_number > 0)`
KeepParticipant(f) == f.race_number > 0

\* Packet2020::Participants
ParticipantsArm(d, p) ==
    IF RosterEmpty(d)
    THEN LET player == Get(p.participants, p.player_car_index)
             d1 == IF player # None
                   THEN [d EXCEPT !.player_details = Some(DetailsOf(player[1]))]
                   ELSE d
             kept == SelectSeq(p.participants, KeepParticipant)
         IN  [d1 EXCEPT !.participants = [k \in DOMAIN kept |-> DetailsOf(kept[k])]]
    ELSE d

\* Mutant of LapReady: the car-status roster is not looked at.
LapReadyMut(d) == d.participants # <<>>

\* `!participants.is_empty() && !car_status.is_empty()`
LapReady(d) == d.participants # <<>> /\ d.car_status # <<>>

\* Mutant of KeepLap: rank 0 passes the filter.
KeepLapMut(f) == f.car_position >= 0

\* `.filter(|(_, f)| f.car_position > 0)`
KeepLap(f) == f.car_position > 0

\* Mutant of IsPlayer: the car slot is compared as if counted from 1.
IsPlayerMut(i, player_index) == i + 1 = player_index

\* `is_player: i == player_index`, i the 0-based car slot
IsPlayer(i, player_index) == i = player_index

\* The PositionTable entry of car slot i (0-based) of a Lap payload.
EntryOf(i, lap, driver, car, player_index) ==
    [is_player |-> IsPlayer(i, player_index),
     position |-> lap.car_position,
     driver |-> driver,
     best_lap |-> to_lap_time(lap.best_lap_time),
     last_lap |-> to_lap_time(lap.last_lap_time),
     s1 |-> to_lap_time(lap.best_lap_sector_1_time),
     s2 |-> to_lap_time(lap.best_lap_sector_1_time),
     s3 |-> to_lap_time(lap.best_lap_sector_1_time),
     tyre |-> car.tyre,
     current_lap_num |-> lap.current_lap_num]

\* Insert e behind every entry whose key is not greater: the sort is stable.
RECURSIVE InsertByKey(_, _)
InsertByKey(s, e) ==
    IF s = <<>> THEN <<e>>
    ELSE IF s[Len(s)].position <= e.position THEN Append(s, e)
    ELSE Append(InsertByKey(SubSeq(s, 1, Len(s) - 1), e), s[Len(s)])

RECURSIVE SortFrom(_, _, _)
SortFrom(s, k, acc) ==
    IF k > Len(s) THEN acc ELSE SortFrom(s, k + 1, InsertByKey(acc, s[k]))

\* Mutant of SortByKey: the table is left in payload order.
SortByKeyMut(s) == s

\* `positions_table.sort_by_key(|p| p.position)`
SortByKey(s) == SortFrom(s, 1, <<>>)

\* The 0-based car slots the Lap arm maps, in payload order.
RECURSIVE KeptSlots(_, _)
KeptSlots(lap, k) ==
    IF k > Len(lap) THEN <<>>
    ELSE (IF KeepLap(lap[k]) THEN <<k - 1>> ELSE <<>>) \o KeptSlots(lap, k + 1)

\* `participants.get(i).unwrap()` or `car_status.get(i).unwrap()` panics.
LapUnwrapPanics(d, p) ==
    \E k \in DOMAIN p.lap_data :
        /\ KeepLap(p.lap_data[k])
        /\ (Get(d.participants, k - 1) = None \/ Get(d.car_status, k - 1) = None)

\* Packet2020::Lap, where no unwrap panics.
LapArm(d, p) ==
    IF LapReady(d)
    THEN LET slots == KeptSlots(p.lap_data, 1)
             built == [k \in DOMAIN slots |->
                         EntryOf(slots[k], p.lap_data[slots[k] + 1],
                                 d.participants[slots[k] + 1],
                                 d.car_status[slots[k] + 1],
                                 p.player_car_index)]
         IN  [d EXCEPT !.positions_table = SortByKey(built)]
    ELSE d

\* Mutant of SpeedTrapHit: every car's speed trap is recorded.
SpeedTrapHitMut(st, player_index) == TRUE

\* `st.vehicle_index == player_index`
SpeedTrapHit(st, player_index) == st.vehicle_index = player_index

\* Packet2020::Event
EventArm(d, p) ==
    IF p.event.type = "SpeedTrap" /\ SpeedTrapHit(p.event, p.player_car_index)
    THEN [d EXCEPT !.speed_trap = Some(p.event.speed)]
    ELSE d

\* Whether `match msg` panics (the data is then left as it was: the Lap arm
\* assigns positions_table only after collect() returned).
Panics(d, p) == p.kind = "Lap" /\ LapReady(d) /\ LapUnwrapPanics(d, p)

\* `match msg { ... }`: AppData after the arm of packet p ran to its end.
Aggregate(d, p) ==
    CASE p.kind = "CarStatus" -> CarStatusArm(d, p)
      [] p.kind = "CarTelemetry" -> CarTelemetryArm(d, p)
      [] p.kind = "Participants" -> ParticipantsArm(d, p)
      [] p.kind = "Lap" -> IF Panics(d, p) THEN d ELSE LapArm(d, p)
      [] p.kind = "Event" -> EventArm(d, p)
      [] OTHER -> d

\* `driver_name.split(" ").collect::<Vec<&str>>()[1]`: the index is out of
\* bounds, and the draw closure panics, for a display name of one token (the
\* rows of the table being in view).
DrawPanics(d) ==
    \E k \in DOMAIN d.positions_table : Len(d.positions_table[k].driver.driver) < 2

\* The colours the draw closure gives the four tyre-wear gauges of the
\* player's car: `if let Some(car) = &data.player_car_status`.
TyreColors(d) ==
    IF d.player_car_status = None THEN None
    ELSE LET car == d.player_car_status[1]
         IN  Some([rear_left |-> wear_color_percentage(car.tyres_wear.rear_left),
                   rear_right |-> wear_color_percentage(car.tyres_wear.rear_right),
                   front_left |-> wear_color_percentage(car.tyres_wear.front_left),
                   front_right |-> wear_color_percentage(car.tyres_wear.front_right)])

(***************************************************************************)
(* Packets. Every packet carries the header's player_car_index.            *)
(***************************************************************************)
PlayerIdx == {0, 1, UnknownPlayer}

\* Every payload array of at most MaxCars car slots over the records R.
Payloads(R) == UNION {[1..n -> R] : n \in 0..MaxCars}

Wear(rl, rr, fl, fr) ==
    [rear_left |-> rl, rear_right |-> rr, front_left |-> fl, front_right |-> fr]

SoftCar == [visual_tyre_compound |-> "VisualSoft", tyres_wear |-> Wear(10, 20, 30, 40)]
MediumCar == [visual_tyre_compound |-> "VisualMedium", tyres_wear |-> Wear(51, 70, 71, 50)]

FastCar ==
    [speed |-> 250, throttle |-> 100, brake |-> 0, gear |-> 4,
     engine_rpm |-> 11000, drs |-> TRUE, rev_lights_percent |-> 71]
SlowCar ==
    [speed |-> 120, throttle |-> 0, brake |-> 60, gear |-> 2,
     engine_rpm |-> 7000, drs |-> FALSE, rev_lights_percent |-> 50]

Hamilton ==
    [driver |-> "LewisHamilton", team |-> "Mercedes", race_number |-> 44,
     nationality |-> "British", name |-> "HAMILTON"]
Verstappen ==
    [driver |-> "MaxVerstappen", team |-> "RedBull", race_number |-> 33,
     nationality |-> "Dutch", name |-> "VERSTAPPEN"]
\* A driver the client has no name of two words for.
Stranger ==
    [driver |-> "Unknown", team |-> "Unknown", race_number |-> 2,
     nationality |-> "Unknown", name |-> "PLAYER"]
\* A car slot nobody drives: race number 0.
Unassigned ==
    [driver |-> "MaxVerstappen", team |-> "RedBull", race_number |-> 0,
     nationality |-> "Dutch", name |-> ""]

LapOf(rank, lap_num, best, last, s1) ==
    [car_position |-> rank, current_lap_num |-> lap_num, best_lap_time |-> best,
     last_lap_time |-> last, best_lap_sector_1_time |-> s1]
Unclassified == LapOf(0, 0, 0, 0, 0)
Leader == LapOf(1, 5, 75250, 76001, 25010)
Second == LapOf(2, 4, 3605000, 59999, 100)

Motion == [kind |-> "Motion", player_car_index |-> 0]
Session == [kind |-> "Session", player_car_index |-> 0]

CarStatusPackets(R, I) ==
    {[kind |-> "CarStatus", player_car_index |-> i, car_status_data |-> c] :
        i \in I, c \in Payloads(R)}

CarTelemetryPackets(R, I, G) ==
    {[kind |-> "CarTelemetry", player_car_index |-> i, suggested_gear |-> g,
      car_telemetry_data |-> c] : i \in I, g \in G, c \in Payloads(R)}

ParticipantsPackets(R, I) ==
    {[kind |-> "Participants", player_car_index |-> i, participants |-> c] :
        i \in I, c \in Payloads(R)}

LapPackets(R, I) ==
    {[kind |-> "Lap", player_car_index |-> i, lap_data |-> c] :
        i \in I, c \in Payloads(R)}

SpeedTrap(v, s) == [type |-> "SpeedTrap", vehicle_index |-> v, speed |-> s]
FastestLap == [type |-> "FastestLap", vehicle_index |-> 0, speed |-> 0]

EventPackets(I, V, S) ==
    {[kind |-> "Event", player_car_index |-> i, event |-> e] :
        i \in I, e \in {SpeedTrap(v, s) : v \in V, s \in S} \cup {FastestLap}}

(***************************************************************************)
(* The feeds: what the network delivers in each specification.             *)
(***************************************************************************)
\* One packet of every kind the roster claims are not about.
OtherThanParticipants ==
    {Motion, Session,
     [kind |-> "CarStatus", player_car_index |-> 0, car_status_data |-> <<SoftCar>>],
     [kind |-> "Lap", player_car_index |-> 0, lap_data |-> <<Leader>>],
     [kind |-> "Event", player_car_index |-> 0, event |-> SpeedTrap(0, 300)]}

RosterFeed ==
    ParticipantsPackets({Unassigned, Hamilton, Verstappen}, PlayerIdx)
        \cup OtherThanParticipants

PlayerFeed ==
    CarStatusPackets({SoftCar, MediumCar}, PlayerIdx)
        \cup CarTelemetryPackets({FastCar, SlowCar}, PlayerIdx, {0, 5})
        \cup EventPackets(PlayerIdx, PlayerIdx, {300, 310})
        \cup {Motion, Session}

LapFeed ==
    ParticipantsPackets({Unassigned, Hamilton, Verstappen}, {0})
        \cup CarStatusPackets({SoftCar}, {0})
        \cup LapPackets({Unclassified, Leader, Second}, PlayerIdx)
        \cup {Motion, [kind |-> "Event", player_car_index |-> 0, event |-> SpeedTrap(0, 300)]}

\* CarStatus packets of one car, the player's, with every wear value.
WearFeed ==
    {[kind |-> "CarStatus", player_car_index |-> 0,
      car_status_data |-> <<[visual_tyre_compound |-> "VisualSoft",
                             tyres_wear |-> Wear(v, MaxWear - v, v, MaxWear - v)]>>] :
        v \in 0..MaxWear}

\* Rosters and Lap packets with a driver whose display name is one token.
NameFeed ==
    ParticipantsPackets({Hamilton, Stranger}, {0})
        \cup CarStatusPackets({SoftCar}, {0})
        \cup LapPackets({Unclassified, Leader}, {0})
        \cup {Motion}

\* One packet of the kinds that build the position table, a Lap packet the
\* rosters cover and one with a classified car slot beyond them.
LiveFeed ==
    {Motion,
     [kind |-> "CarStatus", player_car_index |-> 0, car_status_data |-> <<SoftCar>>],
     [kind |-> "Participants", player_car_index |-> 0, participants |-> <<Hamilton>>],
     [kind |-> "Lap", player_car_index |-> 0, lap_data |-> <<Leader>>],
     [kind |-> "Lap", player_car_index |-> 0, lap_data |-> <<Unclassified, Second>>]}

PipeFeed ==
    {Motion,
     [kind |-> "Event", player_car_index |-> 0, event |-> SpeedTrap(0, 300)],
     [kind |-> "Event", player_car_index |-> 0, event |-> SpeedTrap(0, 310)],
     [kind |-> "CarTelemetry", player_car_index |-> 0, suggested_gear |-> 5,
      car_telemetry_data |-> <<FastCar>>]}

(***************************************************************************)
(* The state machine.                                                      *)
(***************************************************************************)
\* App::new
AppNew ==
    [player_index |-> UnknownPlayer,
     player_details |-> None,
     player_car_status |-> None,
     player_telemetry |-> None,
     positions_table |-> <<>>,
     participants |-> <<>>,
     car_status |-> <<>>,
     speed_trap |-> None]

Init ==
    /\ data = AppNew
    /\ lock = "free"
    /\ tasks = EmptyBag
    /\ queue = <<>>
    /\ msg = None
    /\ pc = "recv"
    /\ target = AppNew
    /\ pending = 0
    /\ arrival = <<>>
    /\ errs = 0

\* What a panic of the consumer task leaves. The task is spawned and its
\* handle dropped (app.rs 105, 484): the panic ends the task, and with it the
\* process where the executor aborts on a task's panic; nothing in main or
\* App::start ends the process otherwise.
Crashed == {"panicked", "aborted"}

\* s without its first element equal to p.
RECURSIVE Without(_, _)
Without(s, p) ==
    IF s = <<>> THEN <<>>
    ELSE IF Head(s) = p THEN Tail(s) ELSE <<Head(s)>> \o Without(Tail(s), p)

\* Packets received and not yet applied.
InFlight == BagCardinality(tasks) + Len(queue) + Len(msg)

\* main: client.next() returned a packet and a forwarding task is spawned
\* for it. The model receives while fewer than cap packets are in flight. The
\* feeds hold F1 2020 packets only (Packet::F12020).
Receive(Feed, cap) ==
    /\ pc # "aborted"
    /\ InFlight < cap
    /\ \E p \in Feed :
          /\ tasks' = tasks (+) SetToBag({p})
          /\ arrival' = Append(arrival, p)
    /\ UNCHANGED <<data, lock, queue, msg, pc, target, pending, errs>>

\* main: client.next() returned Err(e): the error is printed and the loop
\* goes on. The model counts at most MaxErrs failures.
ReceiveErr ==
    /\ pc # "aborted"
    /\ errs < MaxErrs
    /\ errs' = errs + 1
    /\ UNCHANGED <<data, lock, tasks, queue, msg, pc, target, pending, arrival>>

\* The forwarding task of packet p runs: sender.send(result). main keeps rx,
\* so the channel is never disconnected and send returns Ok.
ForwardTask(p) ==
    /\ pc # "aborted"
    /\ BagIn(p, tasks)
    /\ tasks' = tasks (-) SetToBag({p})
    /\ queue' = Append(queue, p)
    /\ UNCHANGED <<data, lock, msg, pc, target, pending, arrival, errs>>

\* Some forwarding task runs.
Forward == \E p \in BagToSet(tasks) : ForwardTask(p)

\* Mutant of Recv: the consumer takes the packet enqueued last.
RecvMut ==
    /\ pc = "recv"
    /\ queue # <<>>
    /\ msg' = Some(queue[Len(queue)])
    /\ queue' = SubSeq(queue, 1, Len(queue) - 1)
    /\ pc' = "apply"
    /\ target' = Aggregate(data, queue[Len(queue)])
    /\ UNCHANGED <<data, lock, tasks, pending, arrival, errs>>

\* The consumer: `for msg in receiver` yields the head of the channel.
Recv ==
    /\ pc = "recv"
    /\ queue # <<>>
    /\ msg' = Some(Head(queue))
    /\ queue' = Tail(queue)
    /\ pc' = "apply"
    /\ target' = Aggregate(data, Head(queue))
    /\ UNCHANGED <<data, lock, tasks, pending, arrival, errs>>

\* Mutant of Apply: an ignored packet kind goes on to the next packet at once
\* (`continue`), with no redraw.
ApplyMut ==
    /\ pc = "apply"
    /\ lock = "free"
    /\ IF Panics(data, msg[1])
       THEN /\ pc' \in Crashed
            /\ msg' = None
            /\ arrival' = Without(arrival, msg[1])
            /\ UNCHANGED <<data, lock, pending>>
       ELSE /\ data' = Aggregate(data, msg[1])
            /\ pending' = pending + 1
            /\ IF msg[1].kind \in {"Motion", "Session"}
               THEN /\ pc' = "recv"
                    /\ msg' = None
                    /\ arrival' = Without(arrival, msg[1])
                    /\ UNCHANGED lock
               ELSE /\ pc' = "render"
                    /\ lock' = "consumer"
                    /\ UNCHANGED <<msg, arrival>>
    /\ UNCHANGED <<tasks, queue, target, errs>>

\* The consumer: app_data.lock().await, then `match msg`. A panic unwinds the
\* task, which drops the guard.
Apply ==
    /\ pc = "apply"
    /\ lock = "free"
    /\ IF Panics(data, msg[1])
       THEN /\ pc' \in Crashed
            /\ msg' = None
            /\ arrival' = Without(arrival, msg[1])
            /\ UNCHANGED <<data, lock, pending>>
       ELSE /\ data' = Aggregate(data, msg[1])
            /\ lock' = "consumer"
            /\ pc' = "render"
            /\ pending' = pending + 1
            /\ UNCHANGED <<msg, arrival>>
    /\ UNCHANGED <<tasks, queue, target, errs>>

\* The consumer: terminal.autoresize() and terminal.draw(..) succeed, and the
\* guard is dropped at the end of the loop body.
Render ==
    /\ pc = "render"
    /\ lock = "consumer"
    /\ lock' = "free"
    /\ msg' = None
    /\ arrival' = Without(arrival, msg[1])
    /\ IF DrawPanics(data)
       THEN pc' \in Crashed /\ UNCHANGED pending
       ELSE pc' = "recv" /\ pending' = pending - 1
    /\ UNCHANGED <<data, tasks, queue, target, errs>>

\* The consumer: autoresize() or draw(..) returns an error, and unwrap() or
\* expect(..) panics, with the guard still held: the unwinding drops it.
RenderFail ==
    /\ pc = "render"
    /\ lock = "consumer"
    /\ lock' = "free"
    /\ msg' = None
    /\ arrival' = Without(arrival, msg[1])
    /\ pc' \in Crashed
    /\ UNCHANGED <<data, tasks, queue, target, pending, errs>>

Consumer == Recv \/ Apply \/ Render \/ RenderFail

\* The whole program, with at most MaxInFlight packets in the pipeline.
Next == Receive(PipeFeed, MaxInFlight) \/ Forward \/ Consumer
Spec == Init /\ [][Next]_vars

\* The aggregator fed one packet at a time.
RosterNext == Receive(RosterFeed, 1) \/ Forward \/ Consumer
RosterSpec == Init /\ [][RosterNext]_vars

PlayerNext == Receive(PlayerFeed, 1) \/ Forward \/ Consumer
PlayerSpec == Init /\ [][PlayerNext]_vars

LapNext == Receive(LapFeed, 1) \/ Forward \/ Consumer
LapSpec == Init /\ [][LapNext]_vars

\* The program with fair scheduling of the forwarding tasks and of the
\* consumer, receive failures, and a terminal that never fails.
LiveNext ==
    \/ Receive(LiveFeed, MaxLive)
    \/ ReceiveErr
    \/ Forward
    \/ Recv
    \/ Apply
    \/ Render
LiveSpec ==
    /\ Init
    /\ [][LiveNext]_vars
    /\ \A p \in LiveFeed : WF_vars(ForwardTask(p))
    /\ WF_vars(Recv)
    /\ WF_vars(Apply)
    /\ WF_vars(Render)

NameNext == Receive(NameFeed, 1) \/ Forward \/ Consumer
NameSpec == Init /\ [][NameNext]_vars

WearNext == Receive(WearFeed, 1) \/ Forward \/ Consumer
WearSpec == Init /\ [][WearNext]_vars

\* The lap times of the formatting specification, in whole milliseconds:
\* every millisecond of some seconds of some minutes of every hour.
LapTimes ==
    {((h * 60 + m) * 60 + sec) * 1000 + f :
        h \in 0..MaxLapHours, m \in {0, 1, 59}, sec \in {0, 5, 15, 59}, f \in 0..999}

\* The lap-time formatting: the channel holds a Participants, a CarStatus and
\* a Lap packet of one car whose three times are one duration of LapTimes, and
\* the consumer drains it.
FormatInit ==
    /\ data = AppNew
    /\ lock = "free"
    /\ tasks = EmptyBag
    /\ \E ms \in LapTimes :
          queue = <<[kind |-> "Participants", player_car_index |-> 0,
                     participants |-> <<Hamilton>>],
                    [kind |-> "CarStatus", player_car_index |-> 0,
                     car_status_data |-> <<SoftCar>>],
                    [kind |-> "Lap", player_car_index |-> 0,
                     lap_data |-> <<LapOf(1, 1, ms, ms, ms)>>]>>
    /\ msg = None
    /\ pc = "recv"
    /\ target = AppNew
    /\ pending = 0
    /\ arrival = queue
    /\ errs = 0

FormatSpec == FormatInit /\ [][Consumer]_vars

(***************************************************************************)
(* Properties.                                                             *)
(***************************************************************************)
\* A step of Apply: the consumer leaves "apply".
ApplyStep == pc = "apply" /\ pc' # "apply"

\* The consumer has applied packet msg[1] and has not drawn yet.
Applied(kind) == pc = "render" /\ msg # None /\ msg[1].kind = kind

\* C1: every entry of the position sequence has a rank greater than 0.
C1_RanksPositive ==
    \A k \in DOMAIN data.positions_table : data.positions_table[k].position > 0

\* A Lap packet with an unclassified car slot was applied and built a table.
C1_Witness ==
    /\ Applied("Lap")
    /\ LapReady(data)
    /\ \E k \in DOMAIN msg[1].lap_data : msg[1].lap_data[k].car_position = 0
    /\ data.positions_table # <<>>
    /\ Len(data.positions_table) < Len(msg[1].lap_data)

\* C2: the position sequence is sorted ascending by rank.
C2_SortedByRank ==
    \A k \in DOMAIN data.positions_table :
        k > 1 => data.positions_table[k - 1].position <= data.positions_table[k].position

\* A Lap packet with ranks [2, 1] was applied; the table runs 1, 2.
C2_Witness ==
    /\ Applied("Lap")
    /\ LapReady(data)
    /\ msg[1].lap_data = <<Second, Leader>>
    /\ Len(data.positions_table) = 2
    /\ data.positions_table[1].position = 1
    /\ data.positions_table[2].position = 2

\* C3: a Lap packet applied while the driver roster or the car-status roster
\* is empty changes no field of AppData and does not panic.
C3_LapNoOp ==
    [][(ApplyStep /\ msg[1].kind = "Lap"
          /\ (data.participants = <<>> \/ data.car_status = <<>>))
       => (data' = data /\ pc' = "render")]_vars

\* A Lap packet with classified cars was applied with drivers known and no
\* car status, over an earlier table.
C3_Witness ==
    /\ Applied("Lap")
    /\ \E k \in DOMAIN msg[1].lap_data : msg[1].lap_data[k].car_position > 0
    /\ data.participants # <<>>
    /\ data.car_status = <<>>
    /\ data.positions_table # <<>>

\* C4: once the driver roster is non-empty no step changes it or the player
\* details; a Participants packet whose slots all have race number 0, applied
\* to an empty roster, leaves the roster empty.
C4_RosterOnce ==
    [][/\ data.participants # <<>>
          => /\ data'.participants = data.participants
             /\ data'.player_details = data.player_details
       /\ (ApplyStep /\ msg[1].kind = "Participants" /\ data.participants = <<>>
             /\ \A k \in DOMAIN msg[1].participants :
                    msg[1].participants[k].race_number = 0)
          => data'.participants = <<>>]_vars

\* A Participants packet with other drivers was applied to a populated roster,
\* which an earlier Participants packet (the one that set the player details
\* to a slot of race number 0) had left empty.
C4_Witness ==
    /\ Applied("Participants")
    /\ data.participants = <<DetailsOf(Hamilton)>>
    /\ msg[1].participants = <<Verstappen, Verstappen>>
    /\ data.player_details = Some(DetailsOf(Unassigned))

\* The payload slots (from 1) a Participants packet keeps.
KeptOf(payload) == {k \in DOMAIN payload : payload[k].race_number > 0}

\* The j-th kept slot of a payload.
NthKept(payload, j) ==
    CHOOSE k \in KeptOf(payload) : Cardinality({m \in KeptOf(payload) : m <= k}) = j

\* C5: a Participants packet applied to an empty roster leaves the roster
\* holding the details of exactly the payload slots of race number > 0, in
\* payload order.
C5_RosterFiltered ==
    [][(ApplyStep /\ msg[1].kind = "Participants" /\ data.participants = <<>>)
       => LET payload == msg[1].participants
              roster == data'.participants
          IN  /\ Len(roster) = Cardinality(KeptOf(payload))
              /\ \A j \in DOMAIN roster :
                    /\ roster[j].race_number > 0
                    /\ roster[j].race_number = payload[NthKept(payload, j)].race_number
                    /\ roster[j].name = payload[NthKept(payload, j)].name
                    /\ roster[j].nationality = payload[NthKept(payload, j)].nationality
                    /\ roster[j].driver = DriverName(payload[NthKept(payload, j)].driver)
                    /\ roster[j].team = TeamName(payload[NthKept(payload, j)].team)]_vars

\* Race numbers 44 and 0, player slot 1, applied to the initial AppData: the
\* roster is the one entry of race number 44.
C5_Witness ==
    /\ Applied("Participants")
    /\ msg[1].participants = <<Hamilton, Unassigned>>
    /\ msg[1].player_car_index = 1
    /\ Len(data.participants) = 1
    /\ data.participants[1].race_number = 44
    /\ data = [AppNew EXCEPT !.participants = <<DetailsOf(Hamilton)>>,
                              !.player_details = Some(DetailsOf(Unassigned))]

\* C6: car-slot alignment. The Nth roster entry is the driver the Participants
\* payload gave for car slot N, the Nth car-status entry is car slot N of the
\* CarStatus payload, and a position entry is built from one car slot's lap
\* data, driver and tyre.
C6_SlotAlignment ==
    [][ApplyStep =>
        /\ (msg[1].kind = "Participants" /\ data.participants = <<>>)
              => \A n \in DOMAIN data'.participants :
                    data'.participants[n] = DetailsOf(msg[1].participants[n])
        /\ msg[1].kind = "CarStatus"
              => /\ Len(data'.car_status) = Len(msg[1].car_status_data)
                 /\ \A n \in DOMAIN data'.car_status :
                       data'.car_status[n].tyre =
                           CompoundLabel(msg[1].car_status_data[n].visual_tyre_compound)
        /\ (msg[1].kind = "Lap" /\ LapReady(data) /\ pc' = "render")
              => \A k \in DOMAIN data'.positions_table :
                    \E n \in DOMAIN msg[1].lap_data :
                        /\ data'.positions_table[k].position =
                               msg[1].lap_data[n].car_position
                        /\ data'.positions_table[k].driver = data.participants[n]
                        /\ data'.positions_table[k].tyre = data.car_status[n].tyre]_vars

\* C7: the player car status is the payload entry at the player index of the
\* last CarStatus packet that had one, the player telemetry is built from the
\* payload entry at the player index of the last CarTelemetry packet that had
\* one and from that packet's suggested gear; CarTelemetry leaves the car
\* status and its roster alone, CarStatus leaves the telemetry alone, and no
\* other step changes either.
C7_PlayerSnapshots ==
    [][LET p == msg[1]
           i == p.player_car_index + 1
       IN  CASE ApplyStep /\ p.kind = "CarStatus" ->
                   /\ data'.player_car_status =
                         IF i \in DOMAIN p.car_status_data
                         THEN Some(p.car_status_data[i])
                         ELSE data.player_car_status
                   /\ data'.player_telemetry = data.player_telemetry
             [] ApplyStep /\ p.kind = "CarTelemetry" ->
                   /\ data'.player_telemetry =
                         IF i \in DOMAIN p.car_telemetry_data
                         THEN LET t == p.car_telemetry_data[i]
                              IN  Some([speed |-> t.speed, throttle |-> t.throttle,
                                        brake |-> t.brake, gear |-> t.gear,
                                        suggested_gear |-> p.suggested_gear,
                                        engine_rpm |-> t.engine_rpm, drs |-> t.drs,
                                        rev_lights_percent |-> t.rev_lights_percent])
                         ELSE data.player_telemetry
                   /\ data'.player_car_status = data.player_car_status
                   /\ data'.car_status = data.car_status
             [] OTHER ->
                   /\ data'.player_car_status = data.player_car_status
                   /\ data'.player_telemetry = data.player_telemetry]_vars

\* CarStatus (slot 0 Soft, wear 10/20/30/40), then CarTelemetry (slot 0 speed
\* 250, gear 4), player slot 0.
C7_Witness ==
    /\ Applied("CarTelemetry")
    /\ msg[1].player_car_index = 0
    /\ msg[1].car_telemetry_data = <<FastCar, SlowCar>>
    /\ msg[1].suggested_gear = 5
    /\ data.player_telemetry # None
    /\ data.player_telemetry[1].speed = 250
    /\ data.player_telemetry[1].gear = 4
    /\ data.player_telemetry[1].suggested_gear = 5
    /\ data.player_car_status = Some(SoftCar)

\* The entries of the position sequence flagged is-player.
Flagged == {k \in DOMAIN data.positions_table : data.positions_table[k].is_player}

\* C8: at most one position entry is flagged is-player; after a Lap packet
\* built the table, an entry is flagged exactly when the packet's player index
\* is a classified car slot of the payload, and the flagged entry is that
\* slot's (its rank and lap number).
C8_PlayerFlag ==
    /\ Cardinality(Flagged) <= 1
    /\ (Applied("Lap") /\ LapReady(data))
          => LET lap == msg[1].lap_data
                 i == msg[1].player_car_index + 1
             IN  /\ Len(data.positions_table) =
                       Cardinality({k \in DOMAIN lap : lap[k].car_position > 0})
                 /\ IF i \in DOMAIN lap /\ lap[i].car_position > 0
                    THEN \E k \in DOMAIN data.positions_table :
                            /\ Flagged = {k}
                            /\ data.positions_table[k].position = lap[i].car_position
                            /\ data.positions_table[k].current_lap_num =
                                   lap[i].current_lap_num
                    ELSE Flagged = {}

\* Ranks [2, 1] with player slot 1: slot 1's entry comes first and is flagged.
C8_Witness ==
    /\ Applied("Lap")
    /\ LapReady(data)
    /\ msg[1].lap_data = <<Second, Leader>>
    /\ msg[1].player_car_index = 1
    /\ Len(data.positions_table) = 2
    /\ data.positions_table[1].position = 1
    /\ data.positions_table[1].current_lap_num = 5
    /\ data.positions_table[1].is_player
    /\ data.positions_table[2].position = 2
    /\ ~data.positions_table[2].is_player

\* C9: a SpeedTrap event of the player's car slot sets the speed-trap reading
\* to the event's speed and changes nothing else; a SpeedTrap event of another
\* car slot and every other event change nothing.
C9_SpeedTrap ==
    [][(ApplyStep /\ msg[1].kind = "Event")
       => IF msg[1].event.type = "SpeedTrap"
             /\ msg[1].event.vehicle_index = msg[1].player_car_index
          THEN data' = [data EXCEPT !.speed_trap = Some(msg[1].event.speed)]
          ELSE data' = data]_vars

\* A SpeedTrap event of car slot 1 at 310, player slot 0, over a reading of 300.
C9_Witness ==
    /\ Applied("Event")
    /\ msg[1].event = SpeedTrap(1, 310)
    /\ msg[1].player_car_index = 0
    /\ data.speed_trap = Some(300)

\* C10: the draw runs with the lock held on AppData as the complete
\* application of the current packet left it; at most one packet is applied
\* and not yet drawn; a packet is taken and applied only when every packet
\* applied before it has been drawn.
C10_AtomicCycle ==
    /\ pending \in {0, 1}
    /\ pc = "render" => (lock = "consumer" /\ data = target /\ pending = 1 /\ msg # None)
    /\ pc \in {"recv", "apply"} => (lock = "free" /\ pending = 0)
    /\ lock = "consumer" => pc = "render"

\* An ignored packet is being drawn over data an earlier packet changed, with
\* a packet in the channel and another in a forwarding task.
C10_Witness ==
    /\ Applied("Motion")
    /\ data # AppNew
    /\ queue # <<>>
    /\ tasks # EmptyBag

\* "<m>:<s>.<fff>" of a duration of ms whole milliseconds, by integer
\* arithmetic: m the whole minutes modulo 60, s the whole seconds modulo 60
\* without padding, fff the milliseconds on 3 digits.
MinSecMillis(ms) ==
    ToString(((ms \div 1000) \div 60) % 60) \o ":" \o ToString((ms \div 1000) % 60)
        \o "." \o (IF ms % 1000 < 10 THEN "00" ELSE IF ms % 1000 < 100 THEN "0" ELSE "")
        \o ToString(ms % 1000)

\* C11: a duration of whole milliseconds is formatted as "<m>:<s>" with m the
\* whole seconds div 60 mod 60 and s the seconds modulo 60 with exactly 3
\* decimals and no padding of the integer part; 75.250 s gives "1:15.250" and
\* 3605.0 s gives "0:5.000".
C11_LapTimeFormat ==
    /\ (Applied("Lap") /\ LapReady(data))
          => /\ Len(data.positions_table) = 1
             /\ data.positions_table[1].best_lap =
                    MinSecMillis(msg[1].lap_data[1].best_lap_time)
             /\ data.positions_table[1].last_lap =
                    MinSecMillis(msg[1].lap_data[1].last_lap_time)
    /\ to_lap_time(75250) = "1:15.250"
    /\ to_lap_time(3605000) = "0:5.000"

\* A lap of 3605.0 s was applied: the table shows "0:5.000".
C11_Witness ==
    /\ Applied("Lap")
    /\ msg[1].lap_data[1].best_lap_time = 3605000
    /\ Len(data.positions_table) = 1
    /\ data.positions_table[1].best_lap = "0:5.000"

\* The bucket of a value: safe 0..50, warning 51..70, critical above.
Bucket(v) == IF v <= 50 THEN "Green" ELSE IF v <= 70 THEN "Yellow" ELSE "Red"

\* C12: the colour bucket is a total function of the value: 0..50 is safe
\* (green), 51..70 warning (yellow), 71..100 critical (red), values above 100
\* critical too; the boundaries are 50 safe, 51 warning, 70 warning, 71
\* critical. Checked on the colours the draw gives the player's tyre gauges.
C12_ColorBucket ==
    /\ (pc = "render" /\ data.player_car_status # None)
          => LET wear == data.player_car_status[1].tyres_wear
                 colors == TyreColors(data)[1]
             IN  /\ colors.rear_left = Bucket(wear.rear_left)
                 /\ colors.rear_right = Bucket(wear.rear_right)
                 /\ colors.front_left = Bucket(wear.front_left)
                 /\ colors.front_right = Bucket(wear.front_right)
    /\ \A v \in 0..MaxWear : wear_color_percentage(v) \in {"Green", "Yellow", "Red"}
    /\ wear_color_percentage(50) = "Green"
    /\ wear_color_percentage(51) = "Yellow"
    /\ wear_color_percentage(70) = "Yellow"
    /\ wear_color_percentage(71) = "Red"
    /\ \A v \in 101..MaxWear : wear_color_percentage(v) = "Red"

\* The player's car is drawn with a rear-left wear above 100 and a rear-right
\* wear of 0: the gauges are red and green.
C12_Witness ==
    /\ Applied("CarStatus")
    /\ data.player_car_status # None
    /\ data.player_car_status[1].tyres_wear.rear_left = MaxWear
    /\ data.player_car_status[1].tyres_wear.rear_left > 100
    /\ data.player_car_status[1].tyres_wear.rear_right = 0
    /\ TyreColors(data)[1].rear_left = "Red"
    /\ TyreColors(data)[1].rear_right = "Green"

\* C13: a render failure is fatal and terminates the whole process: after it
\* no packet is applied, no render is attempted, and the receive loop forwards
\* no packet.
C13_RenderFailureFatal ==
    [][(pc \in Crashed)
       => (data' = data /\ pc' = pc /\ tasks' = tasks /\ queue' = queue)]_vars

\* C14: applying a Lap packet never makes the consumer fail, whatever the
\* rosters hold (a driver roster shortened by the race-number filter, a
\* classified car slot beyond the driver roster or the car-status roster):
\* the consumer goes on to draw and stays alive.
C14_LapNeverFails ==
    [][(ApplyStep /\ msg[1].kind = "Lap") => pc' = "render"]_vars

\* C15: the draw of the position table is guarded against driver names
\* without a space: in every reachable state where the consumer is about to
\* draw, also one whose table holds a driver of a single-token display name,
\* the render step completes and the consumer goes on to the next packet.
C15_RenderGuarded ==
    pc = "render" => ENABLED (Render /\ pc' = "recv")

\* C16: after a CarStatus packet is applied the car-status roster has exactly
\* one summary per car slot of the payload, in payload order, and the summary
\* of slot N holds slot N's compound label and slot N's four corner wear
\* values, each corner taken from its own corner of the payload.
C16_CarStatusRoster ==
    Applied("CarStatus")
        => LET payload == msg[1].car_status_data
           IN  /\ Len(data.car_status) = Len(payload)
               /\ \A n \in DOMAIN payload :
                      /\ data.car_status[n].tyre =
                             CompoundLabel(payload[n].visual_tyre_compound)
                      /\ data.car_status[n].rear_left_tyre = payload[n].tyres_wear.rear_left
                      /\ data.car_status[n].rear_right_tyre = payload[n].tyres_wear.rear_right
                      /\ data.car_status[n].front_left_tyre = payload[n].tyres_wear.front_left
                      /\ data.car_status[n].front_right_tyre = payload[n].tyres_wear.front_right

\* The packet names no player car: its player index is the sentinel, or lies
\* outside the per-car array of its payload.
NoPlayerSlot(p) ==
    \/ p.player_car_index = UnknownPlayer
    \/ p.kind = "CarStatus" /\ p.player_car_index >= Len(p.car_status_data)
    \/ p.kind = "CarTelemetry" /\ p.player_car_index >= Len(p.car_telemetry_data)
    \/ p.kind = "Participants" /\ p.player_car_index >= Len(p.participants)
    \/ p.kind = "Lap" /\ p.player_car_index >= Len(p.lap_data)

\* C17: a packet whose player index is the sentinel 255, or lies outside the
\* payload, changes neither the player car status, the player telemetry, the
\* player details nor the speed-trap reading, and the table a Lap packet
\* builds from it flags no entry as the player's.
C17_SentinelSkips ==
    [][(ApplyStep /\ NoPlayerSlot(msg[1]))
       => (/\ data'.player_car_status = data.player_car_status
           /\ data'.player_telemetry = data.player_telemetry
           /\ data'.player_details = data.player_details
           /\ data'.speed_trap = data.speed_trap
           /\ (msg[1].kind = "Lap" /\ LapReady(data) /\ pc' = "render")
                 => \A k \in DOMAIN data'.positions_table :
                        ~data'.positions_table[k].is_player)]_vars

\* C18: the player details are immutable once captured: once a Participants
\* packet has set them no later packet changes them, also when the capturing
\* packet left the roster empty because every slot had race number 0.
C18_PlayerDetailsOnce ==
    [][(data.player_details # None)
       => data'.player_details = data.player_details]_vars

\* C19: the order that is always preserved is the order of enqueueing: the
\* channel changes only by a forwarding task appending its packet at the end
\* or by the consumer taking the packet at the head. The order of reception is
\* not preserved: the witness is a reachable state in which a packet received
\* later has been applied while a packet received earlier has not.
C19_QueueFifo ==
    [][/\ (pc = "recv" /\ pc' = "apply")
             => (msg' = Some(Head(queue)) /\ queue' = Tail(queue))
       /\ (queue' # queue /\ pc' = pc)
             => \E p \in BagToSet(tasks) :
                    /\ queue' = Append(queue, p)
                    /\ tasks' = tasks (-) SetToBag({p})]_vars

\* Motion was received before the SpeedTrap event of 300; the event has been
\* applied and is being drawn while Motion is still held by its forwarding
\* task.
C19_Witness ==
    /\ arrival = <<Motion,
                   [kind |-> "Event", player_car_index |-> 0,
                    event |-> SpeedTrap(0, 300)]>>
    /\ Applied("Event")
    /\ msg[1] = arrival[2]
    /\ data.speed_trap = Some(300)
    /\ tasks = SetToBag({Motion})
    /\ queue = <<>>

\* The bag of the elements of a sequence.
RECURSIVE BagOf(_)
BagOf(s) == IF s = <<>> THEN EmptyBag ELSE SetToBag({Head(s)}) (+) BagOf(Tail(s))

\* C20: no packet is lost or duplicated between receive and aggregation:
\* every packet received and not yet applied is held exactly once, by a
\* forwarding task, the channel or the consumer, and, with fair scheduling and
\* no render failure, the packet received longest ago among them is
\* eventually applied (so every received packet is: only the finitely many
\* packets received before it can be ahead of it), also after a receive
\* failure.
C20_EveryPacketApplied ==
    /\ [](BagOf(arrival) = tasks (+) BagOf(queue) (+) BagOf(msg))
    /\ (arrival # <<>>) ~> (pc = "render" /\ msg = Some(arrival[1]))

====
